---- MODULE Spec2Model ----
(***************************************************************************)
(* A state-machine model of src/lib/rsa.ts: the RSA family of a WebCrypto  *)
(* provider (classes Rsa, RsaPKCS1, RsaPSS, RsaOAEP).                      *)
(*                                                                         *)
(* One caller issues one call at a time.  A call runs its synchronous part *)
(* (the body of the static method up to the engine call), which either     *)
(* completes the call through the callback or posts one request to the     *)
(* native engine.  The engine answers later; its answer runs the callback  *)
(* the method handed to it.  Strings the code transforms (format, hash     *)
(* name) are sequences of one-character strings; byte buffers are          *)
(* sequences of numbers; an optional value is a sequence of length <= 1.   *)
(***************************************************************************)
EXTENDS Integers, Sequences, FiniteSets, TLC

VARIABLES
    keys,      \* the keys the caller holds: [public, private], each optional
    algObj,    \* the algorithm descriptor object those keys reference
    argObj,    \* the descriptor object passed to the current call, when fresh
    blob,      \* the wrapped bytes the caller holds (result of wrapKey)
    call,      \* the arguments of the current (or last) call
    pc,        \* "idle" | "engine" (a request is in flight) | "done" (completed)
    pending,   \* the engine request in flight
    eng,       \* the engine requests the current call has made, in order
    ans,       \* the engine's answers to them, in order
    done       \* the callback invocations of the current call, in order

vars == <<keys, algObj, argObj, blob, call, pc, pending, eng, ans, done>>

---------------------------------------------------------------------------
(* Optional values *)

None == <<>>

Some(v) == <<v>>

Has(o) == Len(o) > 0

Val(o) == o[1]

---------------------------------------------------------------------------
(* Bounds of the model *)

\* PSS salt lengths tried: every multiple of 8 up to 8 * MaxSaltBytes and
\* the value just below each positive multiple.
MaxSaltBytes == 2

\* OAEP labels tried: absent, and every byte string over LabelBytes of
\* length <= MaxLabelLen.
MaxLabelLen == 1

---------------------------------------------------------------------------
(* Program constants *)

ALG_NAME_RSA_PKCS1 == "RSASSA-PKCS1-v1_5"

ALG_NAME_RSA_PSS == "RSA-PSS"

ALG_NAME_RSA_OAEP == "RSA-OAEP"

ALG_NAME_AES_CBC == "AES-CBC"

ALG_NAME_AES_GCM == "AES-GCM"

HASH_ALGS ==
    { <<"S","H","A","-","1">>,
      <<"S","H","A","-","2","2","4">>,
      <<"S","H","A","-","2","5","6">>,
      <<"S","H","A","-","3","8","4">>,
      <<"S","H","A","-","5","1","2">> }

MinModulusLength == 256

MaxModulusLength == 16384

Classes == {"PKCS1", "PSS", "OAEP"}

ALGORITHM_NAME(cls) ==
    CASE cls = "PKCS1" -> ALG_NAME_RSA_PKCS1
      [] cls = "PSS"   -> ALG_NAME_RSA_PSS
      [] cls = "OAEP"  -> ALG_NAME_RSA_OAEP
      [] OTHER         -> ""

---------------------------------------------------------------------------
(* Built-in string and buffer conversions the code calls *)

LowerLetters ==
    <<"a","b","c","d","e","f","g","h","i","j","k","l","m",
      "n","o","p","q","r","s","t","u","v","w","x","y","z">>

UpperLetters ==
    <<"A","B","C","D","E","F","G","H","I","J","K","L","M",
      "N","O","P","Q","R","S","T","U","V","W","X","Y","Z">>

Digits == <<"0","1","2","3","4","5","6","7","8","9">>

HexDigits == <<"0","1","2","3","4","5","6","7","8","9","a","b","c","d","e","f">>

IndexIn(seq, c) == CHOOSE i \in 1..Len(seq) : seq[i] = c

IsIn(seq, c) == \E i \in 1..Len(seq) : seq[i] = c

toUpperCase(s) ==
    [i \in 1..Len(s) |->
        IF IsIn(LowerLetters, s[i]) THEN UpperLetters[IndexIn(LowerLetters, s[i])]
        ELSE s[i]]

toLocaleLowerCase(s) ==
    [i \in 1..Len(s) |->
        IF IsIn(UpperLetters, s[i]) THEN LowerLetters[IndexIn(UpperLetters, s[i])]
        ELSE s[i]]

\* s.replace("-", ""): the first "-" only.
replaceDash(s) ==
    IF ~IsIn(s, "-") THEN s
    ELSE LET i == CHOOSE k \in 1..Len(s) :
                      s[k] = "-" /\ \A j \in 1..(k - 1) : s[j] # "-"
         IN  SubSeq(s, 1, i - 1) \o SubSeq(s, i + 1, Len(s))

\* /(\d+)$/.exec(s): the longest run of digits ending the string, None when
\* the string does not end with a digit (exec returns null).
TrailingDigits(s) ==
    IF Len(s) = 0 \/ ~IsIn(Digits, s[Len(s)]) THEN None
    ELSE LET i == CHOOSE k \in 1..Len(s) :
                      /\ \A j \in k..Len(s) : IsIn(Digits, s[j])
                      /\ (k = 1 \/ ~IsIn(Digits, s[k - 1]))
         IN  Some(SubSeq(s, i, Len(s)))

\* buffer.toString("hex"): two lower-case hex digits per byte.
toHex(bytes) ==
    IF Len(bytes) = 0 THEN <<>>
    ELSE LET HexByte(b) == <<HexDigits[(b \div 16) + 1], HexDigits[(b % 16) + 1]>>
             F[i \in 0..Len(bytes)] ==
                 IF i = 0 THEN <<>> ELSE F[i - 1] \o HexByte(bytes[i])
         IN  F[Len(bytes)]

---------------------------------------------------------------------------
(* Errors and callback arguments *)

NoErr == [name |-> "", msg |-> "", cause |-> ""]

Err(name, msg) == [name |-> name, msg |-> msg, cause |-> ""]

\* new Error(`${msg}\n${err.message}`)
ErrWith(msg, engineErr) == [name |-> "Error", msg |-> msg, cause |-> engineErr.msg]

EngineErr == [name |-> "EngineError", msg |-> "native failure", cause |-> ""]

CallbackErr == [name |-> "CallerError", msg |-> "callback threw", cause |-> ""]

NullRes == [t |-> "null"]

\* One invocation of the caller's callback.
Delivery(err, res) == [err |-> err, res |-> res]

\* The caller's callback raises when it is handed a success and the caller's
\* success path is faulty (cbThrows); it never raises on an error.
CbRaises(cbThrows, err) == cbThrows /\ err = NoErr

---------------------------------------------------------------------------
(* Algorithm descriptors, keys and native handles *)

\* A descriptor object: the fields the code reads or writes.  hash is the
\* name of the hash sub-object.
Desc(name, modulusLength, publicExponent, hash, saltLength, label) ==
    [name |-> name, modulusLength |-> modulusLength,
     publicExponent |-> publicExponent, hash |-> hash,
     saltLength |-> saltLength, label |-> label]

\* new CryptoKey(native, alg, type, extractable, keyUsages): the constructor
\* stores its arguments.  The algorithm is held by reference: alg says which
\* descriptor object.
CryptoKey(native, alg, type, extractable, keyUsages) ==
    [native |-> native, alg |-> alg, type |-> type,
     extractable |-> extractable, usages |-> keyUsages]

---------------------------------------------------------------------------
(* AlgorithmBase: the guards rsa.ts inherits *)

checkAlgorithmIdentifier(cls, alg) ==
    IF ~Has(alg) THEN Err("TypeError", "AlgorithmIdentifier: Algorithm must be an Object")
    ELSE IF Val(alg).name # ALGORITHM_NAME(cls)
         THEN Err("Error", "AlgorithmIdentifier: Wrong algorithm name")
         ELSE NoErr

AlgorithmBase_checkAlgorithmHashedParams(alg) ==
    IF ~Has(alg) \/ ~Has(Val(alg).hash)
    THEN Err("TypeError", "AlgorithmHashedParams: Missing required property hash")
    ELSE NoErr

checkPublicKey(key) ==
    IF key.type # "public" THEN Err("Error", "Key: key is not a public key") ELSE NoErr

checkPrivateKey(key) ==
    IF key.type # "private" THEN Err("Error", "Key: key is not a private key") ELSE NoErr

checkSecretKey(key) ==
    IF key.type # "secret" THEN Err("Error", "Key: key is not a secret key") ELSE NoErr

Aes_checkKeyGenParams(alg) ==
    IF ~Has(alg.length) THEN Err("TypeError", "AesKeyGenParams: length: Missing required property")
    ELSE NoErr

---------------------------------------------------------------------------
(* Rsa: validation *)

Hex03 == <<"0","3">>

Hex010001 == <<"0","1","0","0","0","1">>

checkExponent(exp) ==
    LET e == toHex(exp)
    IN  IF ~(e = Hex03 \/ e = Hex010001)
        THEN Err("TypeError", "RsaKeyGenParams: Wrong publicExponent value")
        ELSE NoErr

\* alg is a descriptor (the identifier check has passed).
checkRsaGenParams(alg) ==
    IF ~Has(alg.modulusLength) \/ Val(alg.modulusLength) = 0
    THEN Err("TypeError", "RsaKeyGenParams: modulusLength: Missing required property")
    ELSE IF Val(alg.modulusLength) < MinModulusLength
            \/ Val(alg.modulusLength) > MaxModulusLength
    THEN Err("TypeError", "RsaKeyGenParams: The modulus length must be a multiple of 8 bits and >= 256 and <= 16384")
    ELSE IF ~Has(alg.publicExponent)
    THEN Err("TypeError", "RsaKeyGenParams: publicExponent: Missing or not a Uint8Array")
    ELSE NoErr

\* The check writes the upper-cased name back into the caller's hash object
\* before it tests it: the result carries the descriptor as the check leaves it.
Rsa_checkAlgorithmHashedParams(alg) ==
    LET e0 == AlgorithmBase_checkAlgorithmHashedParams(alg)
    IN  IF e0 # NoErr THEN [err |-> e0, alg |-> alg]
        ELSE LET name == toUpperCase(Val(Val(alg).hash))
                 a2   == Some([Val(alg) EXCEPT !.hash = Some(name)])
             IN  IF name \notin HASH_ALGS
                 THEN [err |-> Err("Error", "AlgorithmHashedParams: Unknow hash algorithm in use"),
                       alg |-> a2]
                 ELSE [err |-> NoErr, alg |-> a2]

wc2ssl(alg) ==
    LET r == Rsa_checkAlgorithmHashedParams(alg)
    IN  IF r.err # NoErr THEN [err |-> r.err, alg |-> r.alg, out |-> <<>>]
        ELSE [err |-> NoErr, alg |-> r.alg,
              out |-> replaceDash(toUpperCase(Val(Val(r.alg).hash)))]

\* A faulty salt check that forgets the multiple-of-8 test: validation that
\* no longer precedes delegation for a salt length of 15.
checkRsaAlgorithmParams_noMultiple(alg) ==
    IF ~Has(alg.saltLength) \/ Val(alg.saltLength) = 0
    THEN Err("TypeError", "RsaPssAlgorithm: Parameter saltLength is required")
    ELSE NoErr

\* RsaPSS.checkRsaAlgorithmParams
checkRsaAlgorithmParams(alg) ==
    IF ~Has(alg.saltLength) \/ Val(alg.saltLength) = 0
    THEN Err("TypeError", "RsaPssAlgorithm: Parameter saltLength is required")
    ELSE IF Val(alg.saltLength) % 8 # 0
    THEN Err("TypeError", "RsaPssAlgorithm: Parameter saltLength should be a multiple of 8")
    ELSE NoErr

---------------------------------------------------------------------------
(* Callback invocations and try/catch *)

\* The outcome of running a piece of callback code: the invocations of the
\* caller's callback it made, whether an exception left it, and which.
Ran(log) == [log |-> log, threw |-> FALSE, exc |-> NoErr]

Threw(log, exc) == [log |-> log, threw |-> TRUE, exc |-> exc]

\* cb(err, res) where cb is the caller's callback.
UserCb(cbThrows, err, res) ==
    IF CbRaises(cbThrows, err)
    THEN Threw(<<Delivery(err, res)>>, CallbackErr)
    ELSE Ran(<<Delivery(err, res)>>)

\* try { r } catch (e) { h }: h is the outcome of the catch clause, which
\* runs only when an exception leaves r.
Catching(r, h) ==
    IF r.threw
    THEN [log |-> r.log \o h.log, threw |-> h.threw, exc |-> h.exc]
    ELSE r

---------------------------------------------------------------------------
(* The native engine, seen from rsa.ts *)

NoReq == [prim |-> "none"]

Exp3 == <<3>>

Exp65537 == <<1, 0, 1>>

Exp65539 == <<1, 0, 3>>

\* native.Key.generateRsa(size, nExp): nExp = 1 selects 65537, 0 the generic
\* exponent 3.  The handle records the modulus size in bytes.
NativeGenerateRsa(size, nExp) ==
    [kind |-> "rsa", bytes |-> Val(size) \div 8,
     e |-> IF nExp = 1 THEN Exp65537 ELSE Exp3, priv |-> TRUE]

\* Base64Url (external codec): an encoded string is modelled by the bytes it
\* encodes and its encoding; decode raises on anything but an encoded string.
Encoded(enc, bytes) == [enc |-> enc, of |-> bytes]

Base64Url_decode(x) == x.of

Base64Url_encode(buf) == Encoded("base64url", buf.of)

\* A JWK the caller passes: n and e, and d, p, q, dp, dq, qi when private.
Jwk(n, e, private) ==
    [t |-> "jwk", n |-> Encoded("base64url", n), e |-> Encoded("base64url", e),
     d |-> IF private THEN Some(Encoded("base64url", <<7>>)) ELSE None]

\* A DER buffer the caller passes: what it encodes.
DerBuffer(fmt, bytes, e) == [t |-> "buffer", fmt |-> fmt, bytes |-> bytes, e |-> e]

\* native.Key.importJwk(jwk, key_type): the handle it yields on success.
NativeImportJwk(jwk, key_type) ==
    [kind |-> "rsa", bytes |-> Len(jwk.n), e |-> jwk.e, priv |-> (key_type = 1)]

\* native.Key.importPkcs8 / importSpki: the engine parses the buffer only
\* when it holds that format; the handle it yields on success.
NativeCanImportDer(prim, keyData) ==
    \/ prim = "importSpki" /\ keyData.fmt = "spki"
    \/ prim = "importPkcs8" /\ keyData.fmt = "pkcs8"

NativeImportDer(keyData) ==
    [kind |-> "rsa", bytes |-> keyData.bytes, e |-> keyData.e,
     priv |-> (keyData.fmt = "pkcs8")]

\* nkey.exportJwk(type): the data the engine yields on success, its numeric
\* fields not yet in base64url; the private fields only for a private export.
\* The modulus is modelled by its length.
NativeExportJwk(handle, type) ==
    [t |-> "jwk", n |-> Encoded("raw", <<handle.bytes>>), e |-> Encoded("raw", handle.e),
     d |-> IF type = 1 THEN Some(Encoded("raw", <<7>>)) ELSE None,
     alg |-> None, ext |-> None, key_ops |-> None]

\* nkey.exportSpki / exportPkcs8: the DER buffer the engine yields on success.
NativeExportDer(handle, prim) ==
    [t |-> "bytes",
     v |-> DerBuffer(IF prim = "exportSpki" THEN "spki" ELSE "pkcs8", handle.bytes, handle.e)]

\* The label the engine pads with: none given means the empty label.
EffectiveLabel(label) == IF Has(label) THEN Val(label) ELSE <<>>

\* nkey.RsaOaepEncDec(md, data, label, false): the ciphertext, modelled by
\* what went into it.
NativeOaepEncrypt(handle, md, data, label) ==
    [t |-> "ct", bytes |-> handle.bytes, e |-> handle.e, md |-> md,
     label |-> EffectiveLabel(label), plain |-> data]

\* nkey.RsaOaepEncDec(md, data, label, true) succeeds exactly when data was
\* encrypted to this key under the same hash and label.
NativeOaepCanDecrypt(handle, md, data, label) ==
    /\ data.t = "ct"
    /\ handle.priv
    /\ data.bytes = handle.bytes /\ data.e = handle.e
    /\ data.md = md
    /\ data.label = EffectiveLabel(label)

\* native.AesKey.import(raw) and nAesKey.export(): the handle holds the raw bytes.
NativeAesImport(raw) == [kind |-> "aes", raw |-> raw]

NativeAesExport(handle) == handle.raw

---------------------------------------------------------------------------
(* The caller's keys *)

NoKeys == [public |-> None, private |-> None]

\* The algorithm of every RSA key the caller holds is the object algObj.
RefAlgObj == [ref |-> TRUE, v |-> None]

ByValue(desc) == [ref |-> FALSE, v |-> Some(desc)]

\* { privateKey, publicKey }: an object literal with no type and no usages.
KeyPair(privateKey, publicKey) ==
    [t |-> "pair", privateKey |-> privateKey, publicKey |-> publicKey,
     type |-> "undefined", usages |-> <<>>]

KeyRes(key) ==
    [t |-> "key", type |-> key.type, usages |-> key.usages, key |-> key]

Succeeded(log) == \E i \in 1..Len(log) : log[i].err = NoErr /\ log[i].res # NullRes

FirstSuccess(log) ==
    log[CHOOSE i \in 1..Len(log) : log[i].err = NoErr /\ log[i].res # NullRes].res

---------------------------------------------------------------------------
(* generateKey *)

\* Rsa.generateKey up to the engine call (lines 31-39).  alg is a descriptor.
Rsa_generateKey(alg) ==
    IF ~Has(alg.publicExponent)
    THEN [err |-> Err("TypeError", "Buffer: argument must be a buffer, array or string"),
          req |-> NoReq]
    ELSE LET size == alg.modulusLength
             exp  == Val(alg.publicExponent)
             e1   == checkExponent(exp)
             nExp == IF toHex(exp) = Hex010001 THEN 1 ELSE 0
         IN  IF e1 # NoErr THEN [err |-> e1, req |-> NoReq]
             ELSE [err |-> NoErr,
                   req |-> [prim |-> "generateRsa", size |-> size, nExp |-> nExp]]

PublicUsages(cls) ==
    IF cls = "OAEP" THEN <<"encrypt", "wrapKey">> ELSE <<"verify">>

PrivateUsages(cls) ==
    IF cls = "OAEP" THEN <<"decrypt", "unwrapKey">> ELSE <<"sign">>

\* The callback RsaPKCS1/RsaPSS/RsaOAEP.generateKey hand to super.generateKey
\* (lines 226-244, 327-345, 438-456): key is whatever super delivers.
Variant_generateKey_cb(cls, cbThrows, err, key) ==
    IF err # NoErr
    THEN LET r == UserCb(cbThrows, err, NullRes)
         IN  Catching(r, UserCb(cbThrows, r.exc, NullRes))
    ELSE LET k2 == IF key.type = "public"
                   THEN [key EXCEPT !.usages = PublicUsages(cls)]
                   ELSE [key EXCEPT !.usages = PrivateUsages(cls)]
             r  == UserCb(cbThrows, NoErr, k2)
         IN  Catching(r, UserCb(cbThrows, r.exc, NullRes))

\* The callback Rsa.generateKey hands to generateRsa (lines 39-54), when
\* generateKey was called on class cls: cb is that class's callback.
Rsa_generateKey_done(cls, cbThrows, err, key, extractable, keyUsages) ==
    IF err # NoErr
    THEN Variant_generateKey_cb(cls, cbThrows,
                                ErrWith("Rsa: Can not generate new key", err), NullRes)
    ELSE LET r == Variant_generateKey_cb(cls, cbThrows, NoErr,
                     KeyPair(CryptoKey(key, RefAlgObj, "private", extractable, keyUsages),
                             CryptoKey(key, RefAlgObj, "public", extractable, keyUsages)))
         IN  Catching(r, Variant_generateKey_cb(cls, cbThrows, r.exc, NullRes))

\* RsaPKCS1/RsaPSS/RsaOAEP.generateKey up to the engine call (lines 221-226):
\* the error raised, the descriptor as the checks leave it, the request.
Variant_generateKey(cls, alg) ==
    LET e1 == checkAlgorithmIdentifier(cls, alg)
    IN  IF e1 # NoErr THEN [err |-> e1, alg |-> alg, req |-> NoReq]
        ELSE LET e2 == checkRsaGenParams(Val(alg))
             IN  IF e2 # NoErr THEN [err |-> e2, alg |-> alg, req |-> NoReq]
                 ELSE LET r3 == Rsa_checkAlgorithmHashedParams(alg)
                      IN  IF r3.err # NoErr
                          THEN [err |-> r3.err, alg |-> r3.alg, req |-> NoReq]
                          ELSE LET g == Rsa_generateKey(Val(r3.alg))
                               IN  [err |-> g.err, alg |-> r3.alg, req |-> g.req]

---------------------------------------------------------------------------
(* importKey *)

FMT_JWK == <<"j","w","k">>

FMT_SPKI == <<"s","p","k","i">>

FMT_PKCS8 == <<"p","k","c","s","8">>

RuntimeErr == Err("TypeError", "Cannot access property of undefined")

\* Rsa.importKey up to the engine call (lines 69-130), run on class cls.
Rsa_importKey(cls, format, keyData, algorithm) ==
    LET _format == toLocaleLowerCase(format)
    IN  IF _format = FMT_JWK
        THEN LET e1 == checkAlgorithmIdentifier(cls, algorithm)
             IN  IF e1 # NoErr THEN [err |-> e1, alg |-> algorithm, req |-> NoReq]
                 ELSE LET r2 == Rsa_checkAlgorithmHashedParams(algorithm)
                      IN  IF r2.err # NoErr
                          THEN [err |-> r2.err, alg |-> r2.alg, req |-> NoReq]
                          ELSE IF keyData.t # "jwk"
                          THEN [err |-> RuntimeErr, alg |-> r2.alg, req |-> NoReq]
                          ELSE LET key_type == IF Has(keyData.d) THEN 1 ELSE 0
                                   jwk == [keyData EXCEPT
                                             !.n = Base64Url_decode(keyData.n),
                                             !.e = Base64Url_decode(keyData.e),
                                             !.d = IF Has(keyData.d)
                                                   THEN Some(Base64Url_decode(Val(keyData.d)))
                                                   ELSE None]
                               IN  [err |-> NoErr, alg |-> r2.alg,
                                    req |-> [prim |-> "importJwk", jwk |-> jwk,
                                             key_type |-> key_type]]
        ELSE IF _format = FMT_PKCS8 \/ _format = FMT_SPKI
        THEN IF keyData.t # "buffer"
             THEN [err |-> Err("Error", "ImportKey: keyData is not a Buffer"),
                   alg |-> algorithm, req |-> NoReq]
             ELSE [err |-> NoErr, alg |-> algorithm,
                   req |-> [prim |-> IF _format = FMT_SPKI THEN "importSpki" ELSE "importPkcs8",
                            keyData |-> keyData]]
        ELSE [err |-> Err("Error", "ImportKey: Wrong format value"),
              alg |-> algorithm, req |-> NoReq]

\* What building the returned key does (lines 93-96 and 114-117): the key, and
\* the descriptor with modulusLength and publicExponent written into it.
\* Writing into a missing descriptor raises.
BuildImported(key, algorithm, type, extractable, keyUsages, bits, exponent) ==
    IF ~Has(algorithm)
    THEN [err |-> RuntimeErr, alg |-> algorithm, rsa |-> NullRes]
    ELSE [err |-> NoErr,
          alg |-> Some([Val(algorithm) EXCEPT !.modulusLength = Some(bits),
                                              !.publicExponent = Some(exponent)]),
          rsa |-> KeyRes(CryptoKey(key, RefAlgObj, type, extractable, keyUsages))]

\* The callback handed to importJwk (lines 89-101).
Rsa_importJwk_done(cbThrows, err, key, jwk, key_type, algorithm, extractable, keyUsages) ==
    IF err # NoErr
    THEN [alg |-> algorithm,
          ran |-> UserCb(cbThrows, ErrWith("ImportKey: Can not import key from JWK", err), NullRes)]
    ELSE LET b == BuildImported(key, algorithm, IF key_type # 0 THEN "private" ELSE "public",
                                extractable, keyUsages, Len(jwk.n) * 8, jwk.e)
         IN  [alg |-> b.alg,
              ran |-> IF b.err # NoErr
                      THEN UserCb(cbThrows, b.err, NullRes)
                      ELSE LET r == UserCb(cbThrows, NoErr, b.rsa)
                           IN  Catching(r, UserCb(cbThrows, r.exc, NullRes))]

\* The callback handed to importPkcs8 / importSpki (lines 110-122).  The
\* catch clause passes err, the engine's error, not the exception e it caught.
\* accessorRaises: key.modulusLength() or key.publicExponent() raises.
Rsa_importDer_done(cbThrows, err, key, format, algorithm, extractable, keyUsages, accessorRaises) ==
    IF err # NoErr
    THEN [alg |-> algorithm, ran |-> UserCb(cbThrows, err, NullRes)]
    ELSE IF accessorRaises
    THEN [alg |-> algorithm, ran |-> UserCb(cbThrows, err, NullRes)]
    ELSE LET b == BuildImported(key, algorithm,
                                IF toLocaleLowerCase(format) = FMT_SPKI THEN "public" ELSE "private",
                                extractable, keyUsages, key.bytes * 8, key.e)
         IN  [alg |-> b.alg,
              ran |-> IF b.err # NoErr
                      THEN UserCb(cbThrows, err, NullRes)
                      ELSE Catching(UserCb(cbThrows, NoErr, b.rsa),
                                    UserCb(cbThrows, err, NullRes))]

---------------------------------------------------------------------------
(* exportKey *)

\* Rsa.exportKey up to the engine call (lines 134-175).
Rsa_exportKey(format, key) ==
    LET type == IF key.type = "public" THEN 0 ELSE 1
        f    == toLocaleLowerCase(format)
    IN  IF f = FMT_JWK
        THEN [err |-> NoErr, req |-> [prim |-> "exportJwk", type |-> type]]
        ELSE IF f = FMT_SPKI
        THEN IF checkPublicKey(key) # NoErr
             THEN [err |-> checkPublicKey(key), req |-> NoReq]
             ELSE [err |-> NoErr, req |-> [prim |-> "exportSpki"]]
        ELSE IF f = FMT_PKCS8
        THEN IF checkPrivateKey(key) # NoErr
             THEN [err |-> checkPrivateKey(key), req |-> NoReq]
             ELSE [err |-> NoErr, req |-> [prim |-> "exportPkcs8"]]
        ELSE [err |-> Err("Error", "ExportKey: Unknown export frmat"), req |-> NoReq]

\* The JWK alg tag of each class, from the hash name's trailing digits
\* (lines 260-261, 361-362, 472-476).
JwkAlg(cls, md_size) ==
    CASE cls = "PKCS1" -> <<"R","S">> \o md_size
      [] cls = "PSS"   -> <<"P","S">> \o md_size
      [] OTHER         -> IF md_size # <<"1">>
                          THEN <<"R","S","A","-","O","A","E","P">> \o <<"-">> \o md_size
                          ELSE <<"R","S","A","-","O","A","E","P">>

\* The comparison the overrides make before tagging a JWK: format === "jwk".
IsJwkFormat(format) == format = FMT_JWK

\* The callback RsaPKCS1/RsaPSS/RsaOAEP.exportKey hand to super.exportKey
\* (lines 253-277, 354-378, 465-492).  alg is the key's descriptor.
Variant_exportKey_cb(cls, cbThrows, format, key, alg, err, data) ==
    IF err # NoErr
    THEN UserCb(cbThrows, err, NullRes)
    ELSE IF IsJwkFormat(format)
    THEN IF ~Has(alg) \/ ~Has(Val(alg).hash) \/ ~Has(TrailingDigits(Val(Val(alg).hash)))
         THEN UserCb(cbThrows, RuntimeErr, NullRes)
         ELSE LET jwk == [data EXCEPT
                            !.alg = Some(JwkAlg(cls, Val(TrailingDigits(Val(Val(alg).hash))))),
                            !.ext = Some(TRUE),
                            !.key_ops = Some(IF key.type = "public"
                                             THEN PublicUsages(cls)
                                             ELSE PrivateUsages(cls))]
                  r   == UserCb(cbThrows, NoErr, jwk)
              IN  Catching(r, UserCb(cbThrows, r.exc, NullRes))
    ELSE LET r == UserCb(cbThrows, NoErr, data)
         IN  Catching(r, UserCb(cbThrows, r.exc, NullRes))

\* The callback exportKey of class cls hands down: the caller's own for the
\* base class, the override's for the others.
ExportCb(cls, cbThrows, format, key, alg, err, data) ==
    IF cls = "Rsa"
    THEN UserCb(cbThrows, err, data)
    ELSE Variant_exportKey_cb(cls, cbThrows, format, key, alg, err, data)

\* The callback Rsa.exportKey hands to exportJwk (lines 139-159), when
\* exportKey was called on class cls: cb is that class's callback.  It reads
\* data before it looks at err, so an engine error surfaces as the exception
\* of reading a field of undefined.
Rsa_exportJwk_done(cls, cbThrows, format, key, alg, err, data) ==
    IF err # NoErr
    THEN ExportCb(cls, cbThrows, format, key, alg, RuntimeErr, NullRes)
    ELSE LET jwk == [data EXCEPT
                       !.e = Base64Url_encode(data.e),
                       !.n = Base64Url_encode(data.n),
                       !.d = IF key.type = "private"
                             THEN Some(Base64Url_encode(Val(data.d)))
                             ELSE data.d]
             r   == ExportCb(cls, cbThrows, format, key, alg, NoErr, jwk)
         IN  Catching(r, ExportCb(cls, cbThrows, format, key, alg, r.exc, NullRes))

---------------------------------------------------------------------------
(* sign and verify *)

\* RsaPKCS1.sign / RsaPKCS1.verify up to the engine call (lines 285-291 and
\* 299-305): guardErr is what checkPrivateKey(key) (sign) or
\* checkPublicKey(key) (verify) raises; keyAlg is key.algorithm, which wc2ssl
\* normalises in place.
RsaPKCS1_signVerify(prim, guardErr, alg, key, keyAlg) ==
    LET e1 == checkAlgorithmIdentifier("PKCS1", alg)
    IN  IF e1 # NoErr THEN [err |-> e1, alg |-> keyAlg, req |-> NoReq]
        ELSE IF guardErr # NoErr THEN [err |-> guardErr, alg |-> keyAlg, req |-> NoReq]
        ELSE LET w == wc2ssl(keyAlg)
             IN  IF w.err # NoErr THEN [err |-> w.err, alg |-> w.alg, req |-> NoReq]
                 ELSE [err |-> NoErr, alg |-> w.alg,
                       req |-> [prim |-> prim, md |-> w.out, salt |-> None]]

\* A faulty sign that forgets checkPrivateKey.
RsaPKCS1_sign_unguarded(alg, key, keyAlg) ==
    RsaPKCS1_signVerify("sign", NoErr, alg, key, keyAlg)

RsaPKCS1_sign(alg, key, keyAlg) ==
    RsaPKCS1_signVerify("sign", checkPrivateKey(key), alg, key, keyAlg)

RsaPKCS1_verify(alg, key, keyAlg) ==
    RsaPKCS1_signVerify("verify", checkPublicKey(key), alg, key, keyAlg)

\* RsaPSS.sign / RsaPSS.verify up to the engine call (lines 397-404 and
\* 414-421): the engine is handed saltLength / 8.
RsaPSS_signVerify(prim, guardErr, alg, key, keyAlg) ==
    LET e1 == checkAlgorithmIdentifier("PSS", alg)
    IN  IF e1 # NoErr THEN [err |-> e1, alg |-> keyAlg, req |-> NoReq]
        ELSE IF checkRsaAlgorithmParams(Val(alg)) # NoErr
        THEN [err |-> checkRsaAlgorithmParams(Val(alg)), alg |-> keyAlg, req |-> NoReq]
        ELSE IF guardErr # NoErr THEN [err |-> guardErr, alg |-> keyAlg, req |-> NoReq]
        ELSE LET w == wc2ssl(keyAlg)
             IN  IF w.err # NoErr THEN [err |-> w.err, alg |-> w.alg, req |-> NoReq]
                 ELSE [err |-> NoErr, alg |-> w.alg,
                       req |-> [prim |-> prim, md |-> w.out,
                                salt |-> Some(Val(Val(alg).saltLength) \div 8)]]

RsaPSS_sign(alg, key, keyAlg) ==
    RsaPSS_signVerify("RsaPssSign", checkPrivateKey(key), alg, key, keyAlg)

RsaPSS_verify(alg, key, keyAlg) ==
    RsaPSS_signVerify("RsaPssVerify", checkPublicKey(key), alg, key, keyAlg)

---------------------------------------------------------------------------
(* RsaOAEP: encrypt, decrypt, wrapKey, unwrapKey *)

\* RsaOAEP.encrypt / RsaOAEP.decrypt up to the engine call (lines 500-511 and
\* 519-530): a label is passed on when the parameters carry one.
RsaOAEP_encDec(decrypt, guardErr, alg, key, keyAlg, data) ==
    LET e1 == checkAlgorithmIdentifier("OAEP", alg)
    IN  IF e1 # NoErr THEN [err |-> e1, alg |-> keyAlg, req |-> NoReq]
        ELSE IF guardErr # NoErr THEN [err |-> guardErr, alg |-> keyAlg, req |-> NoReq]
        ELSE LET w == wc2ssl(keyAlg)
             IN  IF w.err # NoErr THEN [err |-> w.err, alg |-> w.alg, req |-> NoReq]
                 ELSE [err |-> NoErr, alg |-> w.alg,
                       req |-> [prim |-> "RsaOaepEncDec", md |-> w.out, data |-> data,
                                label |-> Val(alg).label, decrypt |-> decrypt]]

RsaOAEP_encrypt(alg, key, keyAlg, data) ==
    RsaOAEP_encDec(FALSE, checkPublicKey(key), alg, key, keyAlg, data)

RsaOAEP_decrypt(alg, key, keyAlg, data) ==
    RsaOAEP_encDec(TRUE, checkPrivateKey(key), alg, key, keyAlg, data)

\* RsaOAEP.wrapKey up to the engine call (lines 540-549): the request to export
\* the secret key carries the hash for the encryption that follows.
RsaOAEP_wrapKey(key, wrappingKey, algorithm) ==
    LET e1 == checkAlgorithmIdentifier("OAEP", algorithm)
    IN  IF e1 # NoErr THEN [err |-> e1, alg |-> algorithm, req |-> NoReq]
        ELSE LET r2 == Rsa_checkAlgorithmHashedParams(algorithm)
             IN  IF r2.err # NoErr THEN [err |-> r2.err, alg |-> r2.alg, req |-> NoReq]
                 ELSE IF checkSecretKey(key) # NoErr
                 THEN [err |-> checkSecretKey(key), alg |-> r2.alg, req |-> NoReq]
                 ELSE IF checkPublicKey(wrappingKey) # NoErr
                 THEN [err |-> checkPublicKey(wrappingKey), alg |-> r2.alg, req |-> NoReq]
                 ELSE LET w == wc2ssl(r2.alg)
                      IN  IF w.err # NoErr THEN [err |-> w.err, alg |-> w.alg, req |-> NoReq]
                          ELSE [err |-> NoErr, alg |-> w.alg,
                                req |-> [prim |-> "AesKey.export", md |-> w.out]]

\* The callback wrapKey hands to nAesKey.export (lines 549-556): the request
\* it makes of the engine on success.
RsaOAEP_wrapKey_exported(_alg, data) ==
    [prim |-> "RsaOaepEncDec", md |-> _alg, data |-> data, label |-> None,
     decrypt |-> FALSE]

\* RsaOAEP.unwrapKey up to the engine call (lines 566-597).
RsaOAEP_unwrapKey(wrappedKey, unwrappingKey, unwrapAlgorithm, unwrappedAlgorithm) ==
    LET e1 == checkAlgorithmIdentifier("OAEP", unwrapAlgorithm)
    IN  IF e1 # NoErr THEN [err |-> e1, alg |-> unwrapAlgorithm, req |-> NoReq]
        ELSE LET r2 == Rsa_checkAlgorithmHashedParams(unwrapAlgorithm)
             IN  IF r2.err # NoErr THEN [err |-> r2.err, alg |-> r2.alg, req |-> NoReq]
                 ELSE IF checkPrivateKey(unwrappingKey) # NoErr
                 THEN [err |-> checkPrivateKey(unwrappingKey), alg |-> r2.alg, req |-> NoReq]
                 ELSE LET w == wc2ssl(r2.alg)
                      IN  IF w.err # NoErr THEN [err |-> w.err, alg |-> w.alg, req |-> NoReq]
                          ELSE IF unwrappedAlgorithm.name \notin {ALG_NAME_AES_CBC, ALG_NAME_AES_GCM}
                          THEN [err |-> Err("Error", "Unsupported algorithm in use"),
                                alg |-> w.alg, req |-> NoReq]
                          ELSE IF Aes_checkKeyGenParams(unwrappedAlgorithm) # NoErr
                          THEN [err |-> Aes_checkKeyGenParams(unwrappedAlgorithm),
                                alg |-> w.alg, req |-> NoReq]
                          ELSE [err |-> NoErr, alg |-> w.alg,
                                req |-> [prim |-> "RsaOaepEncDec", md |-> w.out,
                                         data |-> wrappedKey,
                                         label |-> Some(EffectiveLabel(Val(w.alg).label)),
                                         decrypt |-> TRUE]]

\* The callback unwrapKey hands to AesKey.import (lines 602-609).
RsaOAEP_unwrapKey_imported(cbThrows, err, nkey, unwrappedAlgorithm, extractable, keyUsages) ==
    IF err # NoErr
    THEN UserCb(cbThrows, err, NullRes)
    ELSE UserCb(cbThrows, NoErr,
                KeyRes(CryptoKey(nkey, ByValue(unwrappedAlgorithm), "secret",
                                 extractable, keyUsages)))

---------------------------------------------------------------------------
(* Inputs the caller chooses from *)

SHA256 == <<"S","H","A","-","2","5","6">>

sha1 == <<"s","h","a","-","1">>

MD5 == <<"M","D","5">>

ModulusInputs ==
    { None, Some(MinModulusLength - 1), Some(MinModulusLength),
      Some(MinModulusLength + 4), Some(MaxModulusLength),
      Some(MaxModulusLength + 1) }

ExponentInputs == { None, Some(Exp3), Some(Exp65537), Some(Exp65539) }

UsageInputs == { <<>>, <<"sign", "verify", "encrypt">> }

\* Generation parameters: every modulus length with every exponent under a
\* known hash; then an unnormalised, an unknown and a missing hash, a wrong
\* algorithm name, and no descriptor at all.
GenAlgInputs(cls) ==
    { Some(Desc(ALGORITHM_NAME(cls), m, e, Some(SHA256), None, None)) :
         m \in ModulusInputs, e \in ExponentInputs }
    \cup { Some(Desc(ALGORITHM_NAME(cls), Some(MaxModulusLength), Some(Exp65537), h, None, None)) :
         h \in { None, Some(sha1), Some(MD5) } }
    \cup { Some(Desc("ECDSA", Some(MaxModulusLength), Some(Exp65537), Some(SHA256), None, None)),
           None }

FormatInputs ==
    { FMT_JWK, <<"J","W","K">>, FMT_SPKI, <<"S","P","K","I">>,
      FMT_PKCS8, <<"P","K","C","S","8">>, <<"r","a","w">> }

ModulusBytes == <<201, 17>>

KeyDataInputs ==
    { Jwk(ModulusBytes, Exp65537, FALSE), Jwk(ModulusBytes, Exp65537, TRUE),
      DerBuffer("spki", Len(ModulusBytes), Exp65537),
      DerBuffer("pkcs8", Len(ModulusBytes), Exp65537) }

\* Key material of a different size, for an import that follows another.
MoreModulusBytes == <<201, 17, 4>>

MoreKeyDataInputs ==
    { Jwk(MoreModulusBytes, Exp3, FALSE),
      DerBuffer("spki", Len(MoreModulusBytes), Exp3),
      DerBuffer("pkcs8", Len(MoreModulusBytes), Exp3) }

\* Import parameters: a known, an unnormalised, an unknown and a missing
\* hash, a wrong algorithm name, and no descriptor at all.
ImportAlgInputs(cls) ==
    { Some(Desc(ALGORITHM_NAME(cls), None, None, h, None, None)) :
         h \in { Some(SHA256), Some(sha1), Some(MD5), None } }
    \cup { Some(Desc("ECDSA", None, None, Some(SHA256), None, None)), None }

SaltInputs ==
    { None } \cup { Some(8 * k) : k \in 0..MaxSaltBytes }
             \cup { Some(8 * k - 1) : k \in 1..MaxSaltBytes }

\* Signature parameters: the class's own name with every salt length (PSS
\* only), and a wrong algorithm name.
SignAlgInputs(cls) ==
    { Some(Desc(ALGORITHM_NAME(cls), None, None, None, salt, None)) :
         salt \in IF cls = "PSS" THEN SaltInputs ELSE { None } }
    \cup { Some(Desc("ECDSA", None, None, None, Some(8), None)) }

LabelBytes == { 5 }

LabelInputs ==
    { None } \cup { Some(l) : l \in UNION { [1..n -> LabelBytes] : n \in 0..MaxLabelLen } }

\* Encryption parameters: RSA-OAEP with every label, and a wrong name.
EncAlgInputs ==
    { Some(Desc(ALG_NAME_RSA_OAEP, None, None, None, None, l)) : l \in LabelInputs }
    \cup { Some(Desc("ECDSA", None, None, None, None, None)) }

\* Wrapping parameters: RSA-OAEP with a known hash and every label; an
\* unnormalised, an unknown and a missing hash; a wrong name.
WrapAlgInputs ==
    { Some(Desc(ALG_NAME_RSA_OAEP, None, None, Some(SHA256), None, l)) : l \in LabelInputs }
    \cup { Some(Desc(ALG_NAME_RSA_OAEP, None, None, h, None, None)) :
              h \in { Some(sha1), Some(MD5), None } }
    \cup { Some(Desc("ECDSA", None, None, Some(SHA256), None, None)) }

AesDesc(name, length) == [name |-> name, length |-> length]

\* Secret keys the AES classes made for the caller.
AesKeyInputs ==
    { CryptoKey(NativeAesImport(raw), ByValue(AesDesc(name, Some(128))), "secret",
                TRUE, <<"encrypt", "decrypt">>) :
         raw \in { <<11, 12>>, <<21, 22>> }, name \in { ALG_NAME_AES_CBC } }

UnwrappedAlgInputs ==
    { AesDesc(ALG_NAME_AES_CBC, Some(128)), AesDesc(ALG_NAME_AES_GCM, Some(128)),
      AesDesc(ALG_NAME_AES_GCM, None), AesDesc("AES-CTR", Some(128)) }

PlainInput == <<1, 2>>

Junk == [t |-> "junk"]

\* The bytes the caller passes to decrypt and unwrapKey: the wrapped bytes
\* it holds, or else bytes no key produced.
CipherInputs == IF Has(blob) THEN { Val(blob).ct } ELSE { Junk }

---------------------------------------------------------------------------
(* Actions: the caller's calls *)

Init ==
    /\ keys = NoKeys
    /\ algObj = None
    /\ argObj = None
    /\ blob = None
    /\ call = [op |-> "none"]
    /\ pc = "idle"
    /\ pending = NoReq
    /\ eng = <<>>
    /\ ans = <<>>
    /\ done = <<>>

\* A call whose synchronous part raised: catch (e) { cb(e, null) }.
FailSync(err) ==
    /\ pc' = "done"
    /\ pending' = NoReq
    /\ eng' = <<>>
    /\ ans' = <<>>
    /\ done' = UserCb(call'.cbThrows, err, NullRes).log

\* A call whose synchronous part reached the engine.
Post(req) ==
    /\ pc' = "engine"
    /\ pending' = req
    /\ eng' = <<req>>
    /\ ans' = <<>>
    /\ done' = <<>>

\* A call under a descriptor object of the caller's own: the checks may have
\* written into it; it is garbage once the call has failed.
StartOnArg(s) ==
    /\ IF s.err # NoErr
       THEN FailSync(s.err) /\ argObj' = None
       ELSE Post(s.req) /\ argObj' = s.alg
    /\ UNCHANGED <<keys, algObj, blob>>

\* The keys the caller can pass: those it holds.
HeldKeys == { Val(keys[role]) : role \in { r \in {"public", "private"} : Has(keys[r]) } }

\* key.algorithm
KeyAlgorithm(key) == IF key.alg.ref THEN algObj ELSE key.alg.v

\* A call on a held key: wc2ssl(key.algorithm) may have written the
\* normalised hash name into the keys' descriptor object.
StartOnKey(s) ==
    /\ IF s.err # NoErr THEN FailSync(s.err) ELSE Post(s.req)
    /\ algObj' = s.alg
    /\ UNCHANGED <<keys, argObj, blob>>

\* The caller makes a key pair.
GenerateKey ==
    /\ pc = "idle"
    /\ keys = NoKeys
    /\ \E cls \in Classes, extractable \in BOOLEAN,
          keyUsages \in UsageInputs, cbThrows \in BOOLEAN :
         \E alg \in GenAlgInputs(cls) :
            /\ call' = [op |-> "generateKey", cls |-> cls, alg |-> alg,
                        extractable |-> extractable, keyUsages |-> keyUsages,
                        cbThrows |-> cbThrows]
            /\ StartOnArg(Variant_generateKey(cls, alg))

\* The caller imports a key.
ImportKey ==
    /\ pc = "idle"
    /\ keys = NoKeys
    /\ \E cls \in Classes, format \in FormatInputs, keyData \in KeyDataInputs,
          extractable \in BOOLEAN, keyUsages \in UsageInputs, cbThrows \in BOOLEAN :
         \E algorithm \in ImportAlgInputs(cls) :
            /\ call' = [op |-> "importKey", cls |-> cls, format |-> format,
                        keyData |-> keyData, alg |-> algorithm,
                        extractable |-> extractable, keyUsages |-> keyUsages,
                        cbThrows |-> cbThrows, reuse |-> FALSE]
            /\ StartOnArg(Rsa_importKey(cls, format, keyData, algorithm))

\* The caller imports a further key and passes, as algorithm, the descriptor
\* object the keys it holds reference.  It keeps the keys it held.
ImportKeyAgain ==
    /\ pc = "idle"
    /\ keys # NoKeys
    /\ blob = None
    /\ \E cls \in Classes, format \in FormatInputs, keyData \in MoreKeyDataInputs,
          cbThrows \in BOOLEAN :
         /\ call' = [op |-> "importKey", cls |-> cls, format |-> format,
                     keyData |-> keyData, alg |-> algObj,
                     extractable |-> TRUE, keyUsages |-> <<"verify">>,
                     cbThrows |-> cbThrows, reuse |-> TRUE]
         /\ StartOnKey(Rsa_importKey(cls, format, keyData, algObj))

\* The caller exports a key it holds, through the base class or an override.
ExportKey ==
    /\ pc = "idle"
    /\ blob = None
    /\ \E cls \in Classes \cup {"Rsa"}, format \in FormatInputs,
          key \in HeldKeys, cbThrows \in BOOLEAN :
         LET s == Rsa_exportKey(format, key)
         IN  /\ call' = [op |-> "exportKey", cls |-> cls, format |-> format,
                         key |-> key, keyAlg |-> KeyAlgorithm(key), cbThrows |-> cbThrows]
             /\ IF s.err # NoErr THEN FailSync(s.err) ELSE Post(s.req)
    /\ UNCHANGED <<keys, algObj, argObj, blob>>

\* The caller signs with a key it holds.
Sign ==
    /\ pc = "idle"
    /\ blob = None
    /\ \E cls \in {"PKCS1", "PSS"}, key \in HeldKeys, cbThrows \in BOOLEAN :
         \E alg \in SignAlgInputs(cls) :
            /\ call' = [op |-> "sign", cls |-> cls, alg |-> alg, key |-> key,
                        keyAlg |-> KeyAlgorithm(key), cbThrows |-> cbThrows]
            /\ StartOnKey(IF cls = "PKCS1"
                          THEN RsaPKCS1_sign(alg, key, KeyAlgorithm(key))
                          ELSE RsaPSS_sign(alg, key, KeyAlgorithm(key)))

\* The caller verifies with a key it holds.
Verify ==
    /\ pc = "idle"
    /\ blob = None
    /\ \E cls \in {"PKCS1", "PSS"}, key \in HeldKeys, cbThrows \in BOOLEAN :
         \E alg \in SignAlgInputs(cls) :
            /\ call' = [op |-> "verify", cls |-> cls, alg |-> alg, key |-> key,
                        keyAlg |-> KeyAlgorithm(key), cbThrows |-> cbThrows]
            /\ StartOnKey(IF cls = "PKCS1"
                          THEN RsaPKCS1_verify(alg, key, KeyAlgorithm(key))
                          ELSE RsaPSS_verify(alg, key, KeyAlgorithm(key)))

\* The caller encrypts with a key it holds.
Encrypt ==
    /\ pc = "idle"
    /\ blob = None
    /\ \E key \in HeldKeys, alg \in EncAlgInputs, cbThrows \in BOOLEAN :
         /\ call' = [op |-> "encrypt", cls |-> "OAEP", alg |-> alg, key |-> key,
                     keyAlg |-> KeyAlgorithm(key), data |-> PlainInput,
                     cbThrows |-> cbThrows]
         /\ StartOnKey(RsaOAEP_encrypt(alg, key, KeyAlgorithm(key), PlainInput))

\* The caller decrypts with a key it holds.
Decrypt ==
    /\ pc = "idle"
    /\ \E key \in HeldKeys, alg \in EncAlgInputs, data \in CipherInputs,
          cbThrows \in BOOLEAN :
         /\ call' = [op |-> "decrypt", cls |-> "OAEP", alg |-> alg, key |-> key,
                     keyAlg |-> KeyAlgorithm(key), data |-> data,
                     cbThrows |-> cbThrows]
         /\ StartOnKey(RsaOAEP_decrypt(alg, key, KeyAlgorithm(key), data))

\* The caller wraps a secret key (or, mistakenly, the RSA key itself) with a
\* key it holds.
WrapKey ==
    /\ pc = "idle"
    /\ blob = None
    /\ \E wrappingKey \in HeldKeys, algorithm \in WrapAlgInputs, cbThrows \in BOOLEAN :
         \E key \in AesKeyInputs \cup {wrappingKey} :
            /\ call' = [op |-> "wrapKey", cls |-> "OAEP", alg |-> algorithm,
                        key |-> wrappingKey, wrapped |-> key, cbThrows |-> cbThrows]
            /\ StartOnArg(RsaOAEP_wrapKey(key, wrappingKey, algorithm))

\* The caller unwraps the bytes it holds with a key it holds.
UnwrapKey ==
    /\ pc = "idle"
    /\ \E unwrappingKey \in HeldKeys, unwrapAlgorithm \in WrapAlgInputs,
          unwrappedAlgorithm \in UnwrappedAlgInputs, wrappedKey \in CipherInputs,
          extractable \in {TRUE}, cbThrows \in BOOLEAN :
         /\ call' = [op |-> "unwrapKey", cls |-> "OAEP", alg |-> unwrapAlgorithm,
                     key |-> unwrappingKey, data |-> wrappedKey,
                     unwrappedAlgorithm |-> unwrappedAlgorithm,
                     extractable |-> extractable,
                     keyUsages |-> <<"encrypt", "decrypt">>,
                     cbThrows |-> cbThrows]
         /\ StartOnArg(RsaOAEP_unwrapKey(wrappedKey, unwrappingKey, unwrapAlgorithm,
                                         unwrappedAlgorithm))

---------------------------------------------------------------------------
(* Actions: the engine's answers *)

\* The engine answers the request in flight with (err, res).
Answer(err, res) == ans' = Append(ans, Delivery(err, res))

\* The callback the engine invoked has completed the call.
Complete(ran) ==
    /\ done' = done \o ran.log
    /\ pc' = "done"
    /\ pending' = NoReq
    /\ argObj' = None

\* The callback the engine invoked has made a further request of the engine.
PostNext(req) ==
    /\ pc' = "engine"
    /\ pending' = req
    /\ eng' = Append(eng, req)
    /\ UNCHANGED <<argObj, done>>

\* A faulty pass-through that reports the engine's false as an error.
Passed_cb_falseAsError(cbThrows, err, res) ==
    IF err = NoErr /\ res.t = "bool" /\ ~res.v
    THEN UserCb(cbThrows, Err("Error", "Signature is not valid"), NullRes)
    ELSE UserCb(cbThrows, err, res)

\* A callback the methods hand to the engine unchanged: nkey.sign(..., cb),
\* nkey.verify(..., cb), nkey.RsaOaepEncDec(..., cb) (lines 291, 305, 404, 421,
\* 511, 530, 554).
Passed_cb(cbThrows, err, res) == UserCb(cbThrows, err, res)

\* The engine answers generateRsa.
GenerateRsaDone ==
    /\ pc = "engine"
    /\ pending.prim = "generateRsa"
    /\ \E ok \in BOOLEAN :
         LET err == IF ok THEN NoErr ELSE EngineErr
             key == NativeGenerateRsa(pending.size, pending.nExp)
             r   == Rsa_generateKey_done(call.cls, call.cbThrows, err, key,
                                         call.extractable, call.keyUsages)
         IN  /\ Answer(err, IF ok THEN [t |-> "handle", v |-> key] ELSE NullRes)
             /\ Complete(r)
             /\ IF Succeeded(r.log)
                THEN /\ keys' = [public  |-> Some(FirstSuccess(r.log).publicKey),
                                 private |-> Some(FirstSuccess(r.log).privateKey)]
                     /\ algObj' = argObj
                ELSE UNCHANGED <<keys, algObj>>
    /\ UNCHANGED <<blob, call, eng>>

\* The descriptor object importKey was passed as algorithm.
ImportAlgorithm == IF call.reuse THEN algObj ELSE argObj

\* importKey completes.  Under a fresh descriptor the caller keeps the key it
\* was handed and the descriptor object the key references; under the
\* descriptor of the keys it holds, it keeps those keys and their descriptor
\* object is as the callback left it.
KeepImported(r) ==
    /\ Complete(r.ran)
    /\ IF call.reuse
       THEN algObj' = r.alg /\ UNCHANGED keys
       ELSE IF Succeeded(r.ran.log)
       THEN LET k == FirstSuccess(r.ran.log).key
            IN  /\ keys' = [NoKeys EXCEPT ![k.type] = Some(k)]
                /\ algObj' = r.alg
       ELSE UNCHANGED <<keys, algObj>>
    /\ UNCHANGED <<blob, call, eng>>

\* The engine answers importJwk.
ImportJwkDone ==
    /\ pc = "engine"
    /\ pending.prim = "importJwk"
    /\ \E ok \in BOOLEAN :
         LET err == IF ok THEN NoErr ELSE EngineErr
             key == NativeImportJwk(pending.jwk, pending.key_type)
         IN  /\ Answer(err, IF ok THEN [t |-> "handle", v |-> key] ELSE NullRes)
             /\ KeepImported(Rsa_importJwk_done(
                    call.cbThrows, err, key, pending.jwk, pending.key_type, ImportAlgorithm,
                    call.extractable, call.keyUsages))

\* The engine answers importPkcs8 or importSpki; reading the modulus and the
\* exponent back from the handle may raise.
ImportDerDone ==
    /\ pc = "engine"
    /\ pending.prim \in {"importPkcs8", "importSpki"}
    /\ \E ok \in BOOLEAN, accessorRaises \in BOOLEAN :
         LET err == IF ok THEN NoErr ELSE EngineErr
             key == NativeImportDer(pending.keyData)
         IN  /\ ok => NativeCanImportDer(pending.prim, pending.keyData)
             /\ Answer(err, IF ok THEN [t |-> "handle", v |-> key] ELSE NullRes)
             /\ KeepImported(Rsa_importDer_done(
                    call.cbThrows, err, key, call.format, ImportAlgorithm,
                    call.extractable, call.keyUsages, accessorRaises))

\* The engine answers exportJwk.
ExportJwkDone ==
    /\ pc = "engine"
    /\ pending.prim = "exportJwk"
    /\ \E ok \in BOOLEAN :
         LET err  == IF ok THEN NoErr ELSE EngineErr
             data == IF ok THEN NativeExportJwk(call.key.native, pending.type) ELSE NullRes
         IN  /\ Answer(err, data)
             /\ Complete(Rsa_exportJwk_done(call.cls, call.cbThrows, call.format, call.key,
                                             KeyAlgorithm(call.key), err, data))
    /\ UNCHANGED <<keys, algObj, blob, call, eng>>

\* The engine answers exportSpki or exportPkcs8: it invokes the callback
\* exportKey was given.
ExportDerDone ==
    /\ pc = "engine"
    /\ pending.prim \in {"exportSpki", "exportPkcs8"}
    /\ \E ok \in BOOLEAN :
         LET err  == IF ok THEN NoErr ELSE EngineErr
             data == IF ok THEN NativeExportDer(call.key.native, pending.prim) ELSE NullRes
         IN  /\ Answer(err, data)
             /\ Complete(ExportCb(call.cls, call.cbThrows, call.format, call.key,
                                  KeyAlgorithm(call.key), err, data))
    /\ UNCHANGED <<keys, algObj, blob, call, eng>>

\* The engine answers sign or RsaPssSign with an error or the signature.
SignDone ==
    /\ pc = "engine"
    /\ pending.prim \in {"sign", "RsaPssSign"}
    /\ \E ok \in BOOLEAN :
         LET err == IF ok THEN NoErr ELSE EngineErr
             res == IF ok THEN [t |-> "bytes", v |-> [sig |-> pending.md]] ELSE NullRes
         IN  /\ Answer(err, res)
             /\ Complete(Passed_cb(call.cbThrows, err, res))
    /\ UNCHANGED <<keys, algObj, blob, call, eng>>

\* The engine answers verify or RsaPssVerify with an error, or with whether
\* the signature is valid.
VerifyDone ==
    /\ pc = "engine"
    /\ pending.prim \in {"verify", "RsaPssVerify"}
    /\ \E ok \in BOOLEAN, valid \in BOOLEAN :
         LET err == IF ok THEN NoErr ELSE EngineErr
             res == IF ok THEN [t |-> "bool", v |-> valid] ELSE NullRes
         IN  /\ Answer(err, res)
             /\ Complete(Passed_cb(call.cbThrows, err, res))
    /\ UNCHANGED <<keys, algObj, blob, call, eng>>

\* The engine answers nAesKey.export (wrapKey, lines 549-556).
AesExportDone ==
    /\ pc = "engine"
    /\ pending.prim = "AesKey.export"
    /\ \E ok \in BOOLEAN :
         LET err  == IF ok THEN NoErr ELSE EngineErr
             data == IF ok THEN [t |-> "bytes", v |-> NativeAesExport(call.wrapped.native)]
                     ELSE NullRes
         IN  /\ Answer(err, data)
             /\ IF err # NoErr
                THEN Complete(UserCb(call.cbThrows, err, NullRes)) /\ UNCHANGED eng
                ELSE PostNext(RsaOAEP_wrapKey_exported(pending.md, data.v))
    /\ UNCHANGED <<keys, algObj, blob, call>>

\* What RsaOaepEncDec yields: decryption succeeds exactly when the data was
\* encrypted to the key under the same hash and label; encryption may fail.
OaepAnswers(handle, req) ==
    IF req.decrypt
    THEN IF NativeOaepCanDecrypt(handle, req.md, req.data, req.label)
         THEN { Delivery(NoErr, [t |-> "bytes", v |-> req.data.plain]) }
         ELSE { Delivery(EngineErr, NullRes) }
    ELSE { Delivery(NoErr, [t |-> "bytes",
                            v |-> NativeOaepEncrypt(handle, req.md, req.data, req.label)]),
           Delivery(EngineErr, NullRes) }

\* The engine answers RsaOaepEncDec for encrypt, decrypt or wrapKey: it
\* invokes the caller's callback.  The caller keeps the bytes wrapKey yields,
\* and remembers the key it wrapped and the parameters it passed.
OaepDone ==
    /\ pc = "engine"
    /\ pending.prim = "RsaOaepEncDec"
    /\ call.op \in {"encrypt", "decrypt", "wrapKey"}
    /\ \E a \in OaepAnswers(call.key.native, pending) :
         /\ Answer(a.err, a.res)
         /\ Complete(Passed_cb(call.cbThrows, a.err, a.res))
         /\ blob' = IF a.err = NoErr /\ call.op = "wrapKey"
                    THEN Some([ct |-> a.res.v, alg |-> call.alg, key |-> call.wrapped])
                    ELSE blob
    /\ UNCHANGED <<keys, algObj, call, eng>>

\* The engine answers RsaOaepEncDec for unwrapKey (lines 597-611).
UnwrapOaepDone ==
    /\ pc = "engine"
    /\ pending.prim = "RsaOaepEncDec"
    /\ call.op = "unwrapKey"
    /\ \E a \in OaepAnswers(call.key.native, pending) :
         /\ Answer(a.err, a.res)
         /\ IF a.err # NoErr
            THEN Complete(UserCb(call.cbThrows, a.err, NullRes)) /\ UNCHANGED eng
            ELSE PostNext([prim |-> "AesKey.import", rawKey |-> a.res.v])
    /\ UNCHANGED <<keys, algObj, blob, call>>

\* The engine answers AesKey.import (unwrapKey).
AesImportDone ==
    /\ pc = "engine"
    /\ pending.prim = "AesKey.import"
    /\ \E ok \in BOOLEAN :
         LET err  == IF ok THEN NoErr ELSE EngineErr
             nkey == NativeAesImport(pending.rawKey)
         IN  /\ Answer(err, IF ok THEN [t |-> "handle", v |-> nkey] ELSE NullRes)
             /\ Complete(RsaOAEP_unwrapKey_imported(
                    call.cbThrows, err, nkey, call.unwrappedAlgorithm,
                    call.extractable, call.keyUsages))
    /\ UNCHANGED <<keys, algObj, blob, call, eng>>

---------------------------------------------------------------------------
(* Actions: the caller between calls *)

\* The caller drops the keys it holds.
Discard ==
    /\ pc = "idle"
    /\ keys # NoKeys
    /\ keys' = NoKeys
    /\ algObj' = None
    /\ blob' = None
    /\ UNCHANGED <<argObj, call, pc, pending, eng, ans, done>>

\* The caller drops the wrapped bytes it holds.  While it holds them it only
\* decrypts or unwraps them: no other operation reads them.
DropBlob ==
    /\ pc = "idle"
    /\ blob # None
    /\ blob' = None
    /\ UNCHANGED <<keys, algObj, argObj, call, pc, pending, eng, ans, done>>

\* The caller has seen the completion of its call and is ready for the next:
\* the record of the call is dropped.
Return ==
    /\ pc = "done"
    /\ pc' = "idle"
    /\ call' = [op |-> "none"]
    /\ eng' = <<>>
    /\ ans' = <<>>
    /\ done' = <<>>
    /\ UNCHANGED <<keys, algObj, argObj, blob, pending>>

Next ==
    \/ GenerateKey
    \/ GenerateRsaDone
    \/ ImportKey
    \/ ImportKeyAgain
    \/ ImportJwkDone
    \/ ImportDerDone
    \/ ExportKey
    \/ ExportJwkDone
    \/ ExportDerDone
    \/ Sign
    \/ Verify
    \/ SignDone
    \/ VerifyDone
    \/ Encrypt
    \/ Decrypt
    \/ WrapKey
    \/ UnwrapKey
    \/ AesExportDone
    \/ OaepDone
    \/ UnwrapOaepDone
    \/ AesImportDone
    \/ Discard
    \/ DropBlob
    \/ Return

Spec == Init /\ [][Next]_vars

---------------------------------------------------------------------------
(* Properties: shared vocabulary *)

Range(seq) == { seq[i] : i \in 1..Len(seq) }

\* The current call has completed with exactly one invocation of the caller's
\* callback, carrying an error and no result.
FailedOnce == pc = "done" /\ Len(done) = 1 /\ done[1].err # NoErr /\ done[1].res = NullRes

\* Every invocation of the caller's callback so far carried an error.
OnlyErrors == \A i \in 1..Len(done) : done[i].err # NoErr

ExportPrims == {"exportJwk", "exportSpki", "exportPkcs8"}

CryptoPrims == {"sign", "verify", "RsaPssSign", "RsaPssVerify", "RsaOaepEncDec"}

Requested(prims) == \E i \in 1..Len(eng) : eng[i].prim \in prims

---------------------------------------------------------------------------
(* C1 *)

\* C1: a key whose extractable flag is false is never exported: exportKey in
\* format jwk, spki or pkcs8, of the base class or of an override, completes
\* with an error and makes no export request of the engine.
C1_NonExtractableExportFails ==
    (/\ call.op = "exportKey"
     /\ ~call.key.extractable
     /\ toLocaleLowerCase(call.format) \in {FMT_JWK, FMT_SPKI, FMT_PKCS8})
    => /\ ~Requested(ExportPrims)
       /\ pc = "done"
       /\ OnlyErrors

---------------------------------------------------------------------------
(* C2 *)

\* C2: a successful generateKey returns a public key whose usages are exactly
\* the variant's public usages and a private key whose usages are exactly the
\* variant's private usages, whatever keyUsages the caller passed.
C2_GeneratedUsagesFixed ==
    (call.op = "generateKey" /\ pc = "done" /\ Succeeded(done))
    => LET pair == FirstSuccess(done)
       IN  /\ Range(pair.publicKey.usages) = Range(PublicUsages(call.cls))
           /\ Range(pair.privateKey.usages) = Range(PrivateUsages(call.cls))

---------------------------------------------------------------------------
(* C3 *)

\* The generation parameters C3 calls valid: modulusLength present, within
\* [256, 16384] and a multiple of 8; publicExponent 03 or 010001 in hex.
C3_ValidGenParams(alg) ==
    /\ Has(alg)
    /\ Has(Val(alg).modulusLength)
    /\ Val(Val(alg).modulusLength) >= MinModulusLength
    /\ Val(Val(alg).modulusLength) <= MaxModulusLength
    /\ Val(Val(alg).modulusLength) % 8 = 0
    /\ Has(Val(alg).publicExponent)
    /\ toHex(Val(Val(alg).publicExponent)) \in {Hex03, Hex010001}

\* C3: generateKey requests generateRsa only for valid generation parameters;
\* for every other request it completes with an error and generateRsa is
\* never requested.
C3_GenerateRsaOnlyForValidParams ==
    (call.op = "generateKey" /\ ~C3_ValidGenParams(call.alg))
    => /\ ~Requested({"generateRsa"})
       /\ FailedOnce

---------------------------------------------------------------------------
(* C4 *)

\* The current call was handed a key of the wrong role.
C4_WrongRole ==
    \/ call.op \in {"sign", "decrypt", "unwrapKey"} /\ call.key.type = "public"
    \/ call.op \in {"verify", "encrypt", "wrapKey"} /\ call.key.type = "private"

\* C4: sign, decrypt and unwrapKey with a public key, and verify, encrypt and
\* wrapKey with a private (wrapping) key, complete with an error and request
\* no signing, verification or OAEP primitive of the engine, whatever the
\* key's usages contain.
C4_KeyRoleGuard ==
    C4_WrongRole => ~Requested(CryptoPrims) /\ FailedOnce

\* RsaPKCS1.sign has been refused a public key whose usages contain "sign",
\* under the right algorithm name.
C4_Witness ==
    /\ call.op = "sign"
    /\ call.cls = "PKCS1"
    /\ Val(call.alg).name = ALG_NAME_RSA_PKCS1
    /\ call.key.type = "public"
    /\ "sign" \in Range(call.key.usages)
    /\ FailedOnce
    /\ done[1].err = Err("Error", "Key: key is not a private key")

---------------------------------------------------------------------------
(* C5 *)

FalseRes == [t |-> "bool", v |-> FALSE]

\* C5: when the engine answers a verify request with no error and false, the
\* caller's completion is a success carrying false; a verify call completes
\* with an error only when no request reached the engine (a parameter or
\* key-role error) or the engine reported that error.
C5_InvalidSignatureIsFalse ==
    (call.op = "verify" /\ pc = "done")
    => /\ (ans = <<Delivery(NoErr, FalseRes)>>) => (done = <<Delivery(NoErr, FalseRes)>>)
       /\ OnlyErrors =>
             \/ eng = <<>>
             \/ (Len(ans) = 1 /\ ans[1].err # NoErr /\ done = <<Delivery(ans[1].err, NullRes)>>)

\* The engine has answered false to a verify under valid parameters and the
\* caller has been handed false.
C5_Witness ==
    /\ call.op = "verify"
    /\ call.cls = "PSS"
    /\ call.key.type = "public"
    /\ pc = "done"
    /\ ans = <<Delivery(NoErr, FalseRes)>>
    /\ done = <<Delivery(NoErr, FalseRes)>>

---------------------------------------------------------------------------
(* C6 *)

\* The current call is unwrapKey, applied to the bytes wrapKey yielded, with
\* the private key of the RSA-OAEP pair that wrapped them, the OAEP parameters
\* that were passed to wrapKey and a supported target algorithm.
C6_RoundTrip ==
    /\ call.op = "unwrapKey"
    /\ Has(blob)
    /\ call.data = Val(blob).ct
    /\ call.alg = Val(blob).alg
    /\ call.key.type = "private"
    /\ Has(algObj)
    /\ Val(algObj).name = ALG_NAME_RSA_OAEP
    /\ call.unwrappedAlgorithm \in
          { AesDesc(ALG_NAME_AES_CBC, Some(128)), AesDesc(ALG_NAME_AES_GCM, Some(128)) }

\* The engine failed to import the recovered bytes as an AES key.
C6_AesImportFailed ==
    \E i \in 1..Len(ans) : eng[i].prim = "AesKey.import" /\ ans[i].err # NoErr

\* C6: unwrapping what wrapKey yielded, with the matching private key and the
\* same OAEP parameters (hash, and label absent, empty or non-empty),
\* succeeds and yields a secret key whose raw bytes are those of the key that
\* was wrapped, the engine's OAEP decryption succeeding exactly when hash and
\* label match those of the encryption.
C6_WrapUnwrapRoundTrip ==
    (C6_RoundTrip /\ pc = "done" /\ ~C6_AesImportFailed)
    => /\ Len(done) = 1
       /\ done[1].err = NoErr
       /\ done[1].res.t = "key"
       /\ done[1].res.type = "secret"
       /\ NativeAesExport(done[1].res.key.native) = NativeAesExport(Val(blob).key.native)

---------------------------------------------------------------------------
(* C7 *)

\* C7: format strings are case-insensitive.  A successful JWK export through
\* RsaPKCS1, RsaPSS or RsaOAEP carries the derived alg tag, ext and the role's
\* key_ops under every spelling of "jwk"; a DER export yields the engine's
\* buffer under every spelling; importKey requests the primitive of the
\* format's lower-case spelling.
C7_FormatCaseInsensitive ==
    /\ (/\ call.op = "exportKey"
        /\ call.cls \in Classes
        /\ pc = "done"
        /\ done[1].err = NoErr)
       => IF toLocaleLowerCase(call.format) = FMT_JWK
          THEN /\ done[1].res.t = "jwk"
               /\ done[1].res.alg =
                     Some(JwkAlg(call.cls, Val(TrailingDigits(Val(Val(call.keyAlg).hash)))))
               /\ done[1].res.ext = Some(TRUE)
               /\ done[1].res.key_ops =
                     Some(IF call.key.type = "public"
                          THEN PublicUsages(call.cls) ELSE PrivateUsages(call.cls))
          ELSE done[1].res = ans[1].res
    /\ (call.op = "importKey" /\ pc = "engine")
       => pending.prim =
             CASE toLocaleLowerCase(call.format) = FMT_JWK   -> "importJwk"
               [] toLocaleLowerCase(call.format) = FMT_SPKI  -> "importSpki"
               [] toLocaleLowerCase(call.format) = FMT_PKCS8 -> "importPkcs8"
               [] OTHER -> "none"

---------------------------------------------------------------------------
(* C8 *)

\* C8: no error is swallowed: every invocation of the caller's callback that
\* carries no result carries an error.
C8_NoErrorSwallowed ==
    \A i \in 1..Len(done) : done[i].res = NullRes => done[i].err # NoErr

---------------------------------------------------------------------------
(* C9 *)

\* C9: a completed call has invoked the caller's callback exactly once, for
\* every operation and every answer of the engine, even when the callback
\* raises while it is handed a success.
C9_ExactlyOneCompletion ==
    pc = "done" => Len(done) = 1

---------------------------------------------------------------------------
(* C10 *)

\* The algorithm identifier check: a descriptor under the class's own name.
C10_NameOk(cls, alg) == Has(alg) /\ Val(alg).name = ALGORITHM_NAME(cls)

\* Hash membership: the hash name is, up to letter case, one of HASH_ALGS.
C10_HashOk(alg) ==
    /\ Has(alg)
    /\ Has(Val(alg).hash)
    /\ toUpperCase(Val(Val(alg).hash)) \in HASH_ALGS

\* The PSS salt length check as the code makes it: present, non-zero and a
\* multiple of 8.
C10_SaltOk(alg) ==
    /\ Has(Val(alg).saltLength)
    /\ Val(Val(alg).saltLength) # 0
    /\ Val(Val(alg).saltLength) % 8 = 0

\* The generation parameter checks as the code makes them.
C10_GenOk(alg) ==
    /\ Has(Val(alg).modulusLength)
    /\ Val(Val(alg).modulusLength) >= MinModulusLength
    /\ Val(Val(alg).modulusLength) <= MaxModulusLength
    /\ Has(Val(alg).publicExponent)
    /\ toHex(Val(Val(alg).publicExponent)) \in {Hex03, Hex010001}

\* The arguments of the current call pass every parameter check its
\* operation makes.
C10_ChecksPass ==
    CASE call.op = "generateKey" ->
            C10_NameOk(call.cls, call.alg) /\ C10_GenOk(call.alg) /\ C10_HashOk(call.alg)
      [] call.op = "importKey" ->
            IF toLocaleLowerCase(call.format) = FMT_JWK
            THEN C10_NameOk(call.cls, call.alg) /\ C10_HashOk(call.alg)
            ELSE /\ toLocaleLowerCase(call.format) \in {FMT_SPKI, FMT_PKCS8}
                 /\ call.keyData.t = "buffer"
      [] call.op = "exportKey" ->
            \/ toLocaleLowerCase(call.format) = FMT_JWK
            \/ toLocaleLowerCase(call.format) = FMT_SPKI /\ call.key.type = "public"
            \/ toLocaleLowerCase(call.format) = FMT_PKCS8 /\ call.key.type = "private"
      [] call.op \in {"sign", "verify"} ->
            /\ C10_NameOk(call.cls, call.alg)
            /\ call.cls = "PSS" => C10_SaltOk(call.alg)
            /\ call.key.type = (IF call.op = "sign" THEN "private" ELSE "public")
            /\ C10_HashOk(call.keyAlg)
      [] call.op \in {"encrypt", "decrypt"} ->
            /\ C10_NameOk("OAEP", call.alg)
            /\ call.key.type = (IF call.op = "decrypt" THEN "private" ELSE "public")
            /\ C10_HashOk(call.keyAlg)
      [] call.op = "wrapKey" ->
            /\ C10_NameOk("OAEP", call.alg)
            /\ C10_HashOk(call.alg)
            /\ call.wrapped.type = "secret"
            /\ call.key.type = "public"
      [] call.op = "unwrapKey" ->
            /\ C10_NameOk("OAEP", call.alg)
            /\ C10_HashOk(call.alg)
            /\ call.key.type = "private"
            /\ call.unwrappedAlgorithm.name \in {ALG_NAME_AES_CBC, ALG_NAME_AES_GCM}
            /\ Has(call.unwrappedAlgorithm.length)
      [] OTHER -> TRUE

\* RsaPSS.sign or RsaPSS.verify under a salt length of 15.
C10_Salt15 ==
    /\ call.op \in {"sign", "verify"}
    /\ call.cls = "PSS"
    /\ Val(call.alg).saltLength = Some(15)

\* C10: validation precedes delegation: a call reaches the engine only when
\* its arguments pass every parameter check of its operation, and a call
\* that fails one completes with an error without any request of the engine;
\* in particular RsaPSS.sign and RsaPSS.verify under a salt length of 15.
C10_ValidationPrecedesDelegation ==
    /\ eng # <<>> => C10_ChecksPass
    /\ ~C10_ChecksPass => eng = <<>> /\ FailedOnce
    /\ C10_Salt15 => eng = <<>> /\ FailedOnce

\* RsaPSS.sign has refused a salt length of 15 from the holder of a private
\* key, under the right algorithm name, without a request of the engine.
C10_Witness ==
    /\ C10_Salt15
    /\ call.op = "sign"
    /\ Val(call.alg).name = ALG_NAME_RSA_PSS
    /\ call.key.type = "private"
    /\ C10_HashOk(call.keyAlg)
    /\ eng = <<>>
    /\ FailedOnce
    /\ done[1].err = Err("TypeError", "RsaPssAlgorithm: Parameter saltLength should be a multiple of 8")

---------------------------------------------------------------------------
(* C11 *)

\* The engine has reported a failure to generateKey, to importKey or to a
\* JWK export, and the call has completed.
C11_EngineFailed ==
    /\ \/ call.op \in {"generateKey", "importKey"}
       \/ call.op = "exportKey" /\ toLocaleLowerCase(call.format) = FMT_JWK
    /\ pc = "done"
    /\ Len(ans) = 1
    /\ ans[1].err # NoErr

\* C11: when the engine reports a failure during generateKey, importKey (jwk,
\* pkcs8 or spki) or a JWK export, the caller is delivered one new error whose
\* message names the failed operation and embeds the engine's message: not
\* the engine's own error object, and not an unrelated error.
C11_EngineErrorsWrapped ==
    C11_EngineFailed
    => /\ Len(done) = 1
       /\ done[1].res = NullRes
       /\ done[1].err # ans[1].err
       /\ done[1].err.name = "Error"
       /\ done[1].err.msg # ""
       /\ done[1].err.cause = ans[1].err.msg

---------------------------------------------------------------------------
(* C12 *)

\* C12: keys are immutable after construction: while the caller holds the
\* keys it was delivered, no step of any operation changes their type,
\* extractable flag or usages, nor any field (name, modulusLength,
\* publicExponent, hash name) of the descriptor object they reference.
C12_KeysImmutable ==
    [][(keys # NoKeys /\ keys' # NoKeys) => (keys' = keys /\ algObj' = algObj)]_vars

---------------------------------------------------------------------------
(* C13 *)

\* RsaPSS.sign or RsaPSS.verify under the right algorithm name, with a key of
\* the right role whose hash is known: only the salt length decides whether
\* validation passes.
C13_SaltDecides ==
    /\ call.op \in {"sign", "verify"}
    /\ call.cls = "PSS"
    /\ C10_NameOk("PSS", call.alg)
    /\ call.key.type = (IF call.op = "sign" THEN "private" ELSE "public")
    /\ C10_HashOk(call.keyAlg)

\* The salt length C13 calls acceptable: present and a multiple of 8, zero
\* included.
C13_SaltAccepted(alg) ==
    /\ Has(Val(alg).saltLength)
    /\ Val(Val(alg).saltLength) % 8 = 0

\* C13: RsaPSS.sign and RsaPSS.verify pass validation exactly when saltLength
\* is present and a multiple of 8 (0, 8, 16, ... accepted, every other value
\* rejected), and on acceptance the engine receives saltLength / 8.
C13_SaltLengthMultiplesOf8 ==
    C13_SaltDecides
    => IF C13_SaltAccepted(call.alg)
       THEN /\ Len(eng) = 1
            /\ eng[1].prim = (IF call.op = "sign" THEN "RsaPssSign" ELSE "RsaPssVerify")
            /\ eng[1].salt = Some(Val(Val(call.alg).saltLength) \div 8)
       ELSE eng = <<>> /\ FailedOnce

====
